---- MODULE Spec2Model ----
(***************************************************************************)
(* Formatting engine of the markdown editor (src/lib/format.ts).           *)
(*                                                                         *)
(* A document text is a sequence of one-character strings, indexed from 0  *)
(* as in the source (JS index i is TLA+ index i + 1).  The primitives      *)
(* wrapSelection, insertAtCursor and prefixLine and the fourteen           *)
(* formatting actions are operators computed the way the source computes   *)
(* them; the state machine calls them on a text buffer with a selection,   *)
(* writes a returned FormatResult back into the buffer and calls the same  *)
(* operation a second time.                                                *)
(***************************************************************************)
EXTENDS Integers, Sequences, FiniteSets, TLC

----------------------------------------------------------------------------
(* Bounds of the model.                                                    *)

\* longest text enumerated over Alphabet in the initial states
MaxLen == 3

\* heading levels passed to formatHeading go this far below 1 and above 6
LevelSpan == 2

----------------------------------------------------------------------------
(* String primitives of the JavaScript runtime, as the source uses them.   *)

Min(a, b) == IF a < b THEN a ELSE b

Max(a, b) == IF a > b THEN a ELSE b

\* the value of text[i] for an index outside the string
Undefined == "undefined"

\* text[i]
CharAt(text, i) == IF 0 <= i /\ i < Len(text) THEN text[i + 1] ELSE Undefined

\* String.prototype.substring(start, end): both arguments are clamped to
\* [0, length] and swapped when start > end
substring(text, start, end) ==
    LET s == Min(Max(start, 0), Len(text))
        e == Min(Max(end, 0), Len(text))
    IN  SubSeq(text, Min(s, e) + 1, Max(s, e))

\* String.prototype.substring(start)
substringFrom(text, start) == substring(text, start, Len(text))

\* String.prototype.indexOf(ch, fromIndex) for a one-character search string
RECURSIVE indexOfFrom(_, _, _)
indexOfFrom(text, ch, i) ==
    IF i >= Len(text) THEN 0 - 1
    ELSE IF text[i + 1] = ch THEN i
    ELSE indexOfFrom(text, ch, i + 1)

indexOf(text, ch, fromIndex) == indexOfFrom(text, ch, Min(Max(fromIndex, 0), Len(text)))

\* String.prototype.startsWith(prefix)
startsWith(line, prefix) ==
    /\ Len(prefix) <= Len(line)
    /\ SubSeq(line, 1, Len(prefix)) = prefix

\* String.prototype.repeat(n) for n >= 0
RECURSIVE repeat(_, _)
repeat(s, n) == IF n <= 0 THEN <<>> ELSE s \o repeat(s, n - 1)

----------------------------------------------------------------------------
(* String literals of format.ts.                                           *)

\* the character U+0060, which the lexer of TLA+ does not admit in a string
Backtick == "U+0060"

BoldMarker ==
    <<"*", "*">>

BoldPlaceholder ==
    <<"*", "*", "b", "o", "l", "d", " ", "t", "e", "x", "t", "*", "*">>

ItalicMarker ==
    <<"*">>

ItalicPlaceholder ==
    <<"*", "i", "t", "a", "l", "i", "c", " ", "t", "e", "x", "t", "*">>

StrikeMarker ==
    <<"~", "~">>

StrikePlaceholder ==
    <<"~", "~", "s", "t", "r", "i", "k", "e", "t", "h", "r", "o", "u", "g",
      "h", "~", "~">>

CodeMarker ==
    <<Backtick>>

CodePlaceholder ==
    <<Backtick, "c", "o", "d", "e", Backtick>>

codeBlockTemplate ==
    <<Backtick, Backtick, Backtick, "\n", "c", "o", "d", "e", "\n", Backtick, Backtick, Backtick>>

Hash ==
    <<"#">>

Space ==
    <<" ">>

BulletPrefix ==
    <<"-", " ">>

OrderedPrefix ==
    <<"1", ".", " ">>

TaskPrefix ==
    <<"-", " ", "[", " ", "]", " ">>

QuotePrefix ==
    <<">", " ">>

LinkBefore ==
    <<"[">>

LinkAfter ==
    <<"]", "(", "h", "t", "t", "p", "s", ":", "/", "/", "e", "x", "a", "m",
      "p", "l", "e", ".", "c", "o", "m", ")">>

LinkPlaceholder ==
    <<"[", "l", "i", "n", "k", " ", "t", "e", "x", "t", "]", "(", "h", "t",
      "t", "p", "s", ":", "/", "/", "e", "x", "a", "m", "p", "l", "e", ".",
      "c", "o", "m", ")">>

ImageBefore ==
    <<"!", "[">>

ImageAfter ==
    <<"]", "(", "h", "t", "t", "p", "s", ":", "/", "/", "e", "x", "a", "m",
      "p", "l", "e", ".", "c", "o", "m", "/", "i", "m", "a", "g", "e", ".",
      "p", "n", "g", ")">>

ImagePlaceholder ==
    <<"!", "[", "a", "l", "t", " ", "t", "e", "x", "t", "]", "(", "h", "t",
      "t", "p", "s", ":", "/", "/", "e", "x", "a", "m", "p", "l", "e", ".",
      "c", "o", "m", "/", "i", "m", "a", "g", "e", ".", "p", "n", "g", ")">>

HorizontalRule ==
    <<"\n", "-", "-", "-", "\n">>

tableTemplate ==
    <<"|", " ", "H", "e", "a", "d", "e", "r", " ", "1", " ", "|", " ", "H",
      "e", "a", "d", "e", "r", " ", "2", " ", "|", "\n", "|", "-", "-", "-",
      "-", "-", "-", "-", "-", "-", "-", "|", "-", "-", "-", "-", "-", "-",
      "-", "-", "-", "-", "|", "\n", "|", " ", "C", "e", "l", "l", " ", "1",
      " ", " ", " ", "|", " ", "C", "e", "l", "l", " ", "2", " ", " ", " ",
      "|">>

----------------------------------------------------------------------------
(* Range transform primitives.                                             *)

\* the `after` argument of wrapSelection: absent, or a supplied string
Omitted == <<>>

Supplied(str) == <<str>>

\* after || before: an absent and an empty `after` are both falsy
afterOrBefore(after, before) ==
    IF after # Omitted /\ after[1] # <<>> THEN after[1] ELSE before

\* wrapSelection returning the selection start without the shift by `before`
wrapSelection_unshifted(text, selectionStart, selectionEnd, before, after) ==
    LET afterSyntax == afterOrBefore(after, before)
        selectedText == substring(text, selectionStart, selectionEnd)
        beforeText == substring(text, 0, selectionStart)
        afterText == substringFrom(text, selectionEnd)
    IN  [formattedText |-> beforeText \o before \o selectedText \o afterSyntax \o afterText,
         cursorPosition |-> selectionStart + Len(before) + Len(selectedText) + Len(afterSyntax),
         selectionStart |-> selectionStart,
         selectionEnd |-> selectionStart + Len(before) + Len(selectedText)]

\* wrapSelection leaving the cursor at the end of the selection, before the
\* closing marker
wrapSelection_cursorAtSelectionEnd(text, selectionStart, selectionEnd, before, after) ==
    LET afterSyntax == afterOrBefore(after, before)
        selectedText == substring(text, selectionStart, selectionEnd)
        beforeText == substring(text, 0, selectionStart)
        afterText == substringFrom(text, selectionEnd)
    IN  [formattedText |-> beforeText \o before \o selectedText \o afterSyntax \o afterText,
         cursorPosition |-> selectionStart + Len(before) + Len(selectedText),
         selectionStart |-> selectionStart + Len(before),
         selectionEnd |-> selectionStart + Len(before) + Len(selectedText)]

wrapSelection(text, selectionStart, selectionEnd, before, after) ==
    LET afterSyntax == afterOrBefore(after, before)
        selectedText == substring(text, selectionStart, selectionEnd)
        beforeText == substring(text, 0, selectionStart)
        afterText == substringFrom(text, selectionEnd)
    IN  [formattedText |-> beforeText \o before \o selectedText \o afterSyntax \o afterText,
         cursorPosition |-> selectionStart + Len(before) + Len(selectedText) + Len(afterSyntax),
         selectionStart |-> selectionStart + Len(before),
         selectionEnd |-> selectionStart + Len(before) + Len(selectedText)]

\* insertAtCursor returning a caret after the inserted text instead of
\* selecting it
insertAtCursor_collapsed(text, cursorPosition, insertText) ==
    LET beforeText == substring(text, 0, cursorPosition)
        afterText == substringFrom(text, cursorPosition)
    IN  [formattedText |-> beforeText \o insertText \o afterText,
         cursorPosition |-> cursorPosition + Len(insertText),
         selectionStart |-> cursorPosition + Len(insertText),
         selectionEnd |-> cursorPosition + Len(insertText)]

\* insertAtCursor overwriting the character at the cursor
insertAtCursor_overwrite(text, cursorPosition, insertText) ==
    LET beforeText == substring(text, 0, cursorPosition)
        afterText == substringFrom(text, cursorPosition + 1)
    IN  [formattedText |-> beforeText \o insertText \o afterText,
         cursorPosition |-> cursorPosition + Len(insertText),
         selectionStart |-> cursorPosition,
         selectionEnd |-> cursorPosition + Len(insertText)]

insertAtCursor(text, cursorPosition, insertText) ==
    LET beforeText == substring(text, 0, cursorPosition)
        afterText == substringFrom(text, cursorPosition)
    IN  [formattedText |-> beforeText \o insertText \o afterText,
         cursorPosition |-> cursorPosition + Len(insertText),
         selectionStart |-> cursorPosition,
         selectionEnd |-> cursorPosition + Len(insertText)]

\* the scan going back over the newlines to the start of the text
RECURSIVE scanLineStart_toTextStart(_, _)
scanLineStart_toTextStart(text, lineStart) ==
    IF lineStart > 0
    THEN scanLineStart_toTextStart(text, lineStart - 1)
    ELSE lineStart

\* the scan testing text[lineStart] instead of text[lineStart - 1]
RECURSIVE scanLineStart_offByOne(_, _)
scanLineStart_offByOne(text, lineStart) ==
    IF lineStart > 0 /\ CharAt(text, lineStart) # "\n"
    THEN scanLineStart_offByOne(text, lineStart - 1)
    ELSE lineStart

\* while (lineStart > 0 && text[lineStart - 1] !== '\n') lineStart--
RECURSIVE scanLineStart(_, _)
scanLineStart(text, lineStart) ==
    IF lineStart > 0 /\ CharAt(text, lineStart - 1) # "\n"
    THEN scanLineStart(text, lineStart - 1)
    ELSE lineStart

\* prefixLine without the clamp of the cursor to the line start
prefixLine_unclamped(text, cursorPosition, prefix) ==
    LET lineStart == scanLineStart(text, cursorPosition)
        lineEnd == indexOf(text, "\n", cursorPosition)
        actualLineEnd == IF lineEnd = 0 - 1 THEN Len(text) ELSE lineEnd
        currentLine == substring(text, lineStart, actualLineEnd)
        hasPrefix == startsWith(currentLine, prefix)
        formattedText ==
            IF hasPrefix
            THEN substring(text, 0, lineStart)
                     \o substringFrom(currentLine, Len(prefix))
                     \o substringFrom(text, actualLineEnd)
            ELSE substring(text, 0, lineStart) \o prefix \o currentLine
                     \o substringFrom(text, actualLineEnd)
        newCursorPosition ==
            IF hasPrefix
            THEN cursorPosition - Len(prefix)
            ELSE cursorPosition + Len(prefix)
    IN  [formattedText |-> formattedText,
         cursorPosition |-> newCursorPosition,
         selectionStart |-> newCursorPosition,
         selectionEnd |-> newCursorPosition]

\* prefixLine leaving the cursor where it was when it adds the prefix
prefixLine_cursorKept(text, cursorPosition, prefix) ==
    LET lineStart == scanLineStart(text, cursorPosition)
        lineEnd == indexOf(text, "\n", cursorPosition)
        actualLineEnd == IF lineEnd = 0 - 1 THEN Len(text) ELSE lineEnd
        currentLine == substring(text, lineStart, actualLineEnd)
        hasPrefix == startsWith(currentLine, prefix)
        formattedText ==
            IF hasPrefix
            THEN substring(text, 0, lineStart)
                     \o substringFrom(currentLine, Len(prefix))
                     \o substringFrom(text, actualLineEnd)
            ELSE substring(text, 0, lineStart) \o prefix \o currentLine
                     \o substringFrom(text, actualLineEnd)
        newCursorPosition ==
            IF hasPrefix
            THEN Max(lineStart, cursorPosition - Len(prefix))
            ELSE cursorPosition
    IN  [formattedText |-> formattedText,
         cursorPosition |-> newCursorPosition,
         selectionStart |-> newCursorPosition,
         selectionEnd |-> newCursorPosition]

\* prefixLine looking for the prefix at the start of the text instead of
\* the start of the current line
prefixLine_textPrefix(text, cursorPosition, prefix) ==
    LET lineStart == scanLineStart(text, cursorPosition)
        lineEnd == indexOf(text, "\n", cursorPosition)
        actualLineEnd == IF lineEnd = 0 - 1 THEN Len(text) ELSE lineEnd
        currentLine == substring(text, lineStart, actualLineEnd)
        hasPrefix == startsWith(text, prefix)
        formattedText ==
            IF hasPrefix
            THEN substring(text, 0, lineStart)
                     \o substringFrom(currentLine, Len(prefix))
                     \o substringFrom(text, actualLineEnd)
            ELSE substring(text, 0, lineStart) \o prefix \o currentLine
                     \o substringFrom(text, actualLineEnd)
        newCursorPosition ==
            IF hasPrefix
            THEN Max(lineStart, cursorPosition - Len(prefix))
            ELSE cursorPosition + Len(prefix)
    IN  [formattedText |-> formattedText,
         cursorPosition |-> newCursorPosition,
         selectionStart |-> newCursorPosition,
         selectionEnd |-> newCursorPosition]

prefixLine(text, cursorPosition, prefix) ==
    LET lineStart == scanLineStart(text, cursorPosition)
        lineEnd == indexOf(text, "\n", cursorPosition)
        actualLineEnd == IF lineEnd = 0 - 1 THEN Len(text) ELSE lineEnd
        currentLine == substring(text, lineStart, actualLineEnd)
        hasPrefix == startsWith(currentLine, prefix)
        formattedText ==
            IF hasPrefix
            THEN substring(text, 0, lineStart)
                     \o substringFrom(currentLine, Len(prefix))
                     \o substringFrom(text, actualLineEnd)
            ELSE substring(text, 0, lineStart) \o prefix \o currentLine
                     \o substringFrom(text, actualLineEnd)
        newCursorPosition ==
            IF hasPrefix
            THEN Max(lineStart, cursorPosition - Len(prefix))
            ELSE cursorPosition + Len(prefix)
    IN  [formattedText |-> formattedText,
         cursorPosition |-> newCursorPosition,
         selectionStart |-> newCursorPosition,
         selectionEnd |-> newCursorPosition]

----------------------------------------------------------------------------
(* Formatting action library.                                              *)

\* formatBold removing the markers of a selection that is already wrapped
formatBold_toggle(text, selectionStart, selectionEnd) ==
    IF selectionStart = selectionEnd
    THEN insertAtCursor(text, selectionStart, BoldPlaceholder)
    ELSE IF /\ substring(text, selectionStart - 2, selectionStart) = BoldMarker
            /\ substring(text, selectionEnd, selectionEnd + 2) = BoldMarker
         THEN [formattedText |-> substring(text, 0, selectionStart - 2)
                                     \o substring(text, selectionStart, selectionEnd)
                                     \o substringFrom(text, selectionEnd + 2),
               cursorPosition |-> selectionEnd - 2,
               selectionStart |-> selectionStart - 2,
               selectionEnd |-> selectionEnd - 2]
         ELSE wrapSelection(text, selectionStart, selectionEnd, BoldMarker, Omitted)

formatBold(text, selectionStart, selectionEnd) ==
    IF selectionStart = selectionEnd
    THEN insertAtCursor(text, selectionStart, BoldPlaceholder)
    ELSE wrapSelection(text, selectionStart, selectionEnd, BoldMarker, Omitted)

formatItalic(text, selectionStart, selectionEnd) ==
    IF selectionStart = selectionEnd
    THEN insertAtCursor(text, selectionStart, ItalicPlaceholder)
    ELSE wrapSelection(text, selectionStart, selectionEnd, ItalicMarker, Omitted)

formatStrikethrough(text, selectionStart, selectionEnd) ==
    IF selectionStart = selectionEnd
    THEN insertAtCursor(text, selectionStart, StrikePlaceholder)
    ELSE wrapSelection(text, selectionStart, selectionEnd, StrikeMarker, Omitted)

formatInlineCode(text, selectionStart, selectionEnd) ==
    IF selectionStart = selectionEnd
    THEN insertAtCursor(text, selectionStart, CodePlaceholder)
    ELSE wrapSelection(text, selectionStart, selectionEnd, CodeMarker, Omitted)

formatCodeBlock(text, cursorPosition) ==
    insertAtCursor(text, cursorPosition, codeBlockTemplate)

\* the heading prefix without the lower clamp of the level
headingPrefix_noLowerClamp(level) == repeat(Hash, Min(level, 6)) \o Space

\* '#'.repeat(Math.min(Math.max(level, 1), 6)) + ' '
headingPrefix(level) == repeat(Hash, Min(Max(level, 1), 6)) \o Space

formatHeading(text, cursorPosition, level) ==
    prefixLine(text, cursorPosition, headingPrefix(level))

formatBulletList(text, cursorPosition) ==
    prefixLine(text, cursorPosition, BulletPrefix)

formatOrderedList(text, cursorPosition) ==
    prefixLine(text, cursorPosition, OrderedPrefix)

formatTaskList(text, cursorPosition) ==
    prefixLine(text, cursorPosition, TaskPrefix)

formatBlockquote(text, cursorPosition) ==
    prefixLine(text, cursorPosition, QuotePrefix)

\* formatLink calling wrapSelection without its `after` argument
formatLink_afterOmitted(text, selectionStart, selectionEnd) ==
    IF selectionStart = selectionEnd
    THEN insertAtCursor(text, selectionStart, LinkPlaceholder)
    ELSE wrapSelection(text, selectionStart, selectionEnd, LinkBefore, Omitted)

formatLink(text, selectionStart, selectionEnd) ==
    IF selectionStart = selectionEnd
    THEN insertAtCursor(text, selectionStart, LinkPlaceholder)
    ELSE wrapSelection(text, selectionStart, selectionEnd, LinkBefore, Supplied(LinkAfter))

formatImage(text, selectionStart, selectionEnd) ==
    IF selectionStart = selectionEnd
    THEN insertAtCursor(text, selectionStart, ImagePlaceholder)
    ELSE wrapSelection(text, selectionStart, selectionEnd, ImageBefore, Supplied(ImageAfter))

insertHorizontalRule(text, cursorPosition) ==
    insertAtCursor(text, cursorPosition, HorizontalRule)

insertTable(text, cursorPosition) ==
    insertAtCursor(text, cursorPosition, tableTemplate)

----------------------------------------------------------------------------
(* Inputs.                                                                 *)

Alphabet == {"a", "\n", "#", " "}

RECURSIVE StringsUpTo(_)
StringsUpTo(n) ==
    IF n = 0 THEN {<<>>}
    ELSE LET shorter == StringsUpTo(n - 1)
         IN  shorter \cup {Append(str, c) : str \in {t \in shorter : Len(t) = n - 1}, c \in Alphabet}

\* documents whose lines carry the prefixes of the line actions, once or twice
SampleTexts ==
    { Hash \o Space \o Hash \o Space \o <<"a">>,
      BulletPrefix \o <<"a">>,
      BulletPrefix \o BulletPrefix \o <<"a">>,
      OrderedPrefix \o <<"a">>,
      OrderedPrefix \o OrderedPrefix \o <<"a">>,
      TaskPrefix \o <<"a">>,
      TaskPrefix \o TaskPrefix \o <<"a">>,
      QuotePrefix \o <<"a">>,
      QuotePrefix \o QuotePrefix \o <<"a">>,
      <<"a", "\n">> \o BulletPrefix \o <<"b", "\n", "c">> }

Texts == StringsUpTo(MaxLen) \cup SampleTexts

\* `before` arguments of wrapSelection
Markers == {<<>>, <<"*">>, <<"*", "*">>}

\* `after` arguments of wrapSelection
AfterArgs == {Omitted, Supplied(<<>>), Supplied(<<"*">>), Supplied(<<"]", ")">>)}

\* `insertText` arguments of insertAtCursor
InsertTexts == {<<>>, <<"a">>, <<"\n", "-">>}

\* `prefix` arguments of prefixLine
Prefixes == {<<>>, <<"#">>, <<"#", " ">>, <<"a">>, <<"\n">>, BulletPrefix}

Levels == (1 - LevelSpan)..(6 + LevelSpan)

----------------------------------------------------------------------------
(* State.                                                                  *)

VARIABLES
    text,            \* the text buffer the functions are called on
    selectionStart,  \* selection of the buffer; also the cursorPosition argument
    selectionEnd,
    pc,              \* "idle", "returned", "applied" or "repeated"
    op,              \* name of the operation called, "none" before the call
    before,          \* arguments of the call besides text and selection:
    after,           \*   of wrapSelection,
    insertText,      \*   of insertAtCursor,
    prefix,          \*   of prefixLine,
    level,           \*   of formatHeading
    origText,        \* the text the first call was made on
    first,           \* FormatResult of the first call, once there is a second
    result           \* FormatResult of the most recent call

args == <<op, before, after, insertText, prefix, level>>

vars == <<text, selectionStart, selectionEnd, pc, args, origText, first, result>>

PrimitiveNames == {"wrapSelection", "insertAtCursor", "prefixLine"}

WrapActions == {"bold", "italic", "strikethrough", "code", "link", "image"}

LinePrefixActions == {"heading", "bulletList", "orderedList", "taskList", "blockquote"}

InsertActions == {"codeBlock", "table", "horizontalRule"}

ActionNames == WrapActions \cup LinePrefixActions \cup InsertActions

NoResult ==
    [formattedText |-> <<>>, cursorPosition |-> 0, selectionStart |-> 0, selectionEnd |-> 0]

\* the calls with selectionEnd given as cursorPosition to the
\* cursor-position functions
Run_cursorAtSelectionEnd(name, t, s, e, b, a, ins, p, l) ==
    CASE name = "wrapSelection" -> wrapSelection(t, s, e, b, a)
      [] name = "insertAtCursor" -> insertAtCursor(t, s, ins)
      [] name = "prefixLine" -> prefixLine(t, s, p)
      [] name = "bold" -> formatBold(t, s, e)
      [] name = "italic" -> formatItalic(t, s, e)
      [] name = "strikethrough" -> formatStrikethrough(t, s, e)
      [] name = "code" -> formatInlineCode(t, s, e)
      [] name = "heading" -> formatHeading(t, e, l)
      [] name = "bulletList" -> formatBulletList(t, e)
      [] name = "orderedList" -> formatOrderedList(t, e)
      [] name = "taskList" -> formatTaskList(t, e)
      [] name = "blockquote" -> formatBlockquote(t, e)
      [] name = "codeBlock" -> formatCodeBlock(t, e)
      [] name = "link" -> formatLink(t, s, e)
      [] name = "image" -> formatImage(t, s, e)
      [] name = "table" -> insertTable(t, e)
      [] name = "horizontalRule" -> insertHorizontalRule(t, e)

\* the call of an exported function of format.ts; the cursor-position
\* functions are given selectionStart as cursorPosition
Run(name, t, s, e, b, a, ins, p, l) ==
    CASE name = "wrapSelection" -> wrapSelection(t, s, e, b, a)
      [] name = "insertAtCursor" -> insertAtCursor(t, s, ins)
      [] name = "prefixLine" -> prefixLine(t, s, p)
      [] name = "bold" -> formatBold(t, s, e)
      [] name = "italic" -> formatItalic(t, s, e)
      [] name = "strikethrough" -> formatStrikethrough(t, s, e)
      [] name = "code" -> formatInlineCode(t, s, e)
      [] name = "heading" -> formatHeading(t, s, l)
      [] name = "bulletList" -> formatBulletList(t, s)
      [] name = "orderedList" -> formatOrderedList(t, s)
      [] name = "taskList" -> formatTaskList(t, s)
      [] name = "blockquote" -> formatBlockquote(t, s)
      [] name = "codeBlock" -> formatCodeBlock(t, s)
      [] name = "link" -> formatLink(t, s, e)
      [] name = "image" -> formatImage(t, s, e)
      [] name = "table" -> insertTable(t, s)
      [] name = "horizontalRule" -> insertHorizontalRule(t, s)

----------------------------------------------------------------------------
(* The editor these functions are dispatched from: state of App, Layout,   *)
(* Editor, Toolbar and FileOperations.                                     *)

VARIABLES
    content,               \* document.content
    filename,              \* document.filename
    isDirty,               \* document.isDirty
    editorSelectionStart,  \* editorState.selectionStart, -1 before any selection
    editorSelectionEnd,    \* editorState.selectionEnd
    domSelectionStart,     \* selectionStart of the textarea element
    domSelectionEnd,       \* selectionEnd of the textarea element
    pendingRestores,       \* selections of the setTimeout callbacks not yet run
    selectionRequired,     \* ids whose registry descriptor has requiresSelection
    scheduled,             \* number of setTimeout callbacks scheduled so far
    handler,               \* the handler that ran last, and what it was given:
    givenContent,          \*   the new content (handleChange, Tab, onFileLoaded),
    givenFilename,         \*   the new filename (filename input, onFileLoaded),
    invokedAction,         \*   of handleFormatting: the action id, textContent,
    invokedText,           \*   selectionStart and selectionEnd it was called
    invokedStart,          \*   with,
    invokedEnd,
    invokedFrom,           \*   "toolbar" or "keyboard",
    pendingAtInvocation    \*   and the number of callbacks pending at the call

document == <<content, filename, isDirty>>

editorState == <<editorSelectionStart, editorSelectionEnd>>

textarea == <<domSelectionStart, domSelectionEnd>>

invocation ==
    <<handler, givenContent, givenFilename, invokedAction, invokedText,
      invokedStart, invokedEnd, invokedFrom, pendingAtInvocation>>

editorVars ==
    <<document, editorState, textarea, pendingRestores, selectionRequired,
      scheduled, invocation>>

allVars == <<vars, editorVars>>

VARIABLES
    keyEvent,              \* the keydown event of the last keyboard dispatch
    storedDocument,        \* the localStorage item: <<>> or <<content, filename>>
    autoSaveTimer,         \* the pending auto-save timers, each with the
                           \*   document its callback has captured
    effectPending,         \* the auto-save effect has not yet run for the
                           \*   latest document
    upload,                \* the file the FileReader is reading, <<>> if none
    statusType,            \* status.type of FileOperations
    statusTimers,          \* number of pending timers that clear the status
    runs,                  \* the renderDiagrams calls of Preview in flight
    mermaidSvgs,           \* mermaidSvgs of Preview
    previewContent         \* the content prop of Preview

storageVars ==
    <<storedDocument, autoSaveTimer, effectPending, upload, statusType,
      statusTimers>>

previewVars == <<runs, mermaidSvgs, previewContent>>

appVars == <<keyEvent, storageVars, previewVars>>

everyVar == <<allVars, appVars>>

\* no key has been pressed, nothing is stored, no file and no diagram
AppAtRest ==
    /\ keyEvent = <<>>
    /\ storedDocument = <<>>
    /\ autoSaveTimer = <<>>
    /\ effectPending = FALSE
    /\ upload = <<>>
    /\ statusType = "null"
    /\ statusTimers = 0
    /\ runs = <<>>
    /\ mermaidSvgs = <<>>
    /\ previewContent = <<>>

\* nothing is recorded of the last handler
NoInvocation ==
    /\ givenContent = <<>>
    /\ givenFilename = ""
    /\ invokedAction = "none"
    /\ invokedText = <<>>
    /\ invokedStart = 0
    /\ invokedEnd = 0
    /\ invokedFrom = "none"
    /\ pendingAtInvocation = 0

\* the editor is not part of the calls of Spec
EditorAtRest ==
    /\ content = <<>>
    /\ filename = "document.md"
    /\ isDirty = FALSE
    /\ editorSelectionStart = 0 - 1
    /\ editorSelectionEnd = 0 - 1
    /\ domSelectionStart = 0
    /\ domSelectionEnd = 0
    /\ pendingRestores = <<>>
    /\ selectionRequired = {}
    /\ scheduled = 0
    /\ handler = "none"
    /\ NoInvocation
    /\ AppAtRest

----------------------------------------------------------------------------
(* The calls of the functions on a buffer.                                 *)

Init ==
    /\ EditorAtRest
    /\ text \in Texts
    /\ selectionStart \in 0..Len(text)
    /\ selectionEnd \in selectionStart..Len(text)
    /\ pc = "idle"
    /\ op = "none"
    /\ before = <<>>
    /\ after = Omitted
    /\ insertText = <<>>
    /\ prefix = <<>>
    /\ level = 0
    /\ origText = text
    /\ first = NoResult
    /\ result = NoResult

\* the call of an operation on the buffer: the arguments are recorded and the
\* FormatResult is returned
Call(name, b, a, ins, p, l) ==
    /\ op' = name
    /\ before' = b
    /\ after' = a
    /\ insertText' = ins
    /\ prefix' = p
    /\ level' = l
    /\ result' = Run(name, text, selectionStart, selectionEnd, b, a, ins, p, l)
    /\ pc' = "returned"
    /\ UNCHANGED <<text, selectionStart, selectionEnd, origText, first, editorVars, appVars>>

CallWrapSelection ==
    \E b \in Markers, a \in AfterArgs :
        /\ pc = "idle"
        /\ Call("wrapSelection", b, a, <<>>, <<>>, 0)

CallInsertAtCursor ==
    \E ins \in InsertTexts :
        /\ pc = "idle"
        /\ Call("insertAtCursor", <<>>, Omitted, ins, <<>>, 0)

CallPrefixLine ==
    \E p \in Prefixes :
        /\ pc = "idle"
        /\ Call("prefixLine", <<>>, Omitted, <<>>, p, 0)

CallFormatHeading ==
    \E l \in Levels :
        /\ pc = "idle"
        /\ Call("heading", <<>>, Omitted, <<>>, <<>>, l)

CallAction ==
    \E name \in ActionNames \ {"heading"} :
        /\ pc = "idle"
        /\ Call(name, <<>>, Omitted, <<>>, <<>>, 0)

\* the caller replaces its text by formattedText and sets its selection to
\* the returned one
ApplyResult ==
    /\ pc = "returned"
    /\ text' = result.formattedText
    /\ selectionStart' = result.selectionStart
    /\ selectionEnd' = result.selectionEnd
    /\ pc' = "applied"
    /\ UNCHANGED <<args, origText, first, result, editorVars, appVars>>

\* the same operation called again on the text and selection it returned
Repeat ==
    /\ pc = "applied"
    /\ first' = result
    /\ result' = Run(op, text, selectionStart, selectionEnd,
                     before, after, insertText, prefix, level)
    /\ pc' = "repeated"
    /\ UNCHANGED <<text, selectionStart, selectionEnd, args, origText, editorVars, appVars>>

Next ==
    \/ CallWrapSelection
    \/ CallInsertAtCursor
    \/ CallPrefixLine
    \/ CallFormatHeading
    \/ CallAction
    \/ ApplyResult
    \/ Repeat

Spec == Init /\ [][Next]_vars

TypeOK ==
    /\ pc \in {"idle", "returned", "applied", "repeated"}
    /\ op \in PrimitiveNames \cup ActionNames \cup {"none"}
    /\ selectionStart \in Int
    /\ selectionEnd \in Int

----------------------------------------------------------------------------
(* Notation of the properties.                                             *)

\* text[i:j], the characters at offsets i .. j-1
Slice(t, i, j) == SubSeq(t, i + 1, j)

\* a call has returned and the buffer still holds its arguments
Returned == pc \in {"returned", "repeated"}

\* the closing marker the contract of wrapSelection gives a call
ContractAfter == IF after = Omitted THEN before ELSE after[1]

----------------------------------------------------------------------------
(* Properties of wrapSelection and insertAtCursor.                         *)

\* C1: wrapSelection returns text[0:selectionStart] + before +
\* text[selectionStart:selectionEnd] + after + text[selectionEnd:], where
\* `after` is `before` only when the argument is omitted (a supplied `after`
\* of any length, the empty one included, is used as it is), so the length
\* grows by length(before) + length(after).
C1_WrapSelectionText ==
    (Returned /\ op = "wrapSelection") =>
        /\ result.formattedText =
               Slice(text, 0, selectionStart) \o before
                   \o Slice(text, selectionStart, selectionEnd)
                   \o ContractAfter \o Slice(text, selectionEnd, Len(text))
        /\ Len(result.formattedText) =
               Len(text) + Len(before) + Len(ContractAfter)

\* C2: the range wrapSelection returns is the original one shifted by
\* length(before), and it delimits exactly the originally selected text.
C2_WrapSelectionRange ==
    (Returned /\ op = "wrapSelection") =>
        /\ result.selectionStart = selectionStart + Len(before)
        /\ result.selectionEnd = result.selectionStart + (selectionEnd - selectionStart)
        /\ Slice(result.formattedText, result.selectionStart, result.selectionEnd)
               = Slice(text, selectionStart, selectionEnd)

\* a non-empty selection in the middle of a text was wrapped with a
\* non-empty `before`
C2_Witness ==
    /\ pc = "returned"
    /\ op = "wrapSelection"
    /\ before # <<>>
    /\ 0 < selectionStart
    /\ selectionStart < selectionEnd
    /\ selectionEnd < Len(text)

\* C3: every operation, primitive or action, returns a range with
\* 0 <= selectionStart' <= selectionEnd' <= length(formattedText).
C3_ResultRangeValid ==
    Returned =>
        /\ 0 <= result.selectionStart
        /\ result.selectionStart <= result.selectionEnd
        /\ result.selectionEnd <= Len(result.formattedText)

\* a line action removed its prefix with the cursor inside the prefix
C3_Witness ==
    /\ pc = "returned"
    /\ op \in LinePrefixActions \cup {"prefixLine"}
    /\ Len(result.formattedText) < Len(text)
    /\ result.selectionStart > selectionStart - (Len(text) - Len(result.formattedText))

\* C4 as claimed: cursorPosition equals selectionEnd in the result of every
\* action, for empty and non-empty selections.
C4_CursorIsSelectionEnd ==
    (Returned /\ op \in ActionNames) =>
        result.cursorPosition = result.selectionEnd

\* the closing marker of a wrap action
ClosingMarker(name) ==
    CASE name = "bold" -> BoldMarker
      [] name = "italic" -> ItalicMarker
      [] name = "strikethrough" -> StrikeMarker
      [] name = "code" -> CodeMarker
      [] name = "link" -> LinkAfter
      [] name = "image" -> ImageAfter

\* C4 amended: cursorPosition equals selectionEnd for every action on an
\* empty selection and for every line-prefix and insert action; a wrap
\* action (bold, italic, strikethrough, inline code, link, image) on a
\* non-empty selection returns cursorPosition = selectionEnd + the length of
\* its closing marker, the position after the closing marker.
C4_CursorAfterClosingMarker ==
    (Returned /\ op \in ActionNames) =>
        IF op \in WrapActions /\ selectionStart # selectionEnd
        THEN /\ result.cursorPosition = result.selectionEnd + Len(ClosingMarker(op))
             /\ Slice(result.formattedText, result.selectionEnd, result.cursorPosition)
                    = ClosingMarker(op)
        ELSE result.cursorPosition = result.selectionEnd

\* a link was made of a non-empty selection
C4_Witness ==
    /\ pc = "returned"
    /\ op = "link"
    /\ selectionStart < selectionEnd
    /\ result.cursorPosition > result.selectionEnd

\* C5: insertAtCursor returns text[0:cursorPosition] + insertText +
\* text[cursorPosition:], and the returned selection spans exactly the
\* inserted text and ends at the returned cursor.
C5_InsertAtCursor ==
    (Returned /\ op = "insertAtCursor") =>
        /\ result.formattedText =
               Slice(text, 0, selectionStart) \o insertText
                   \o Slice(text, selectionStart, Len(text))
        /\ result.selectionStart = selectionStart
        /\ result.selectionEnd = selectionStart + Len(insertText)
        /\ result.selectionEnd = result.cursorPosition
        /\ Slice(result.formattedText, result.selectionStart, result.selectionEnd)
               = insertText

\* a non-empty text was inserted in the middle of a text
C5_Witness ==
    /\ pc = "returned"
    /\ op = "insertAtCursor"
    /\ insertText # <<>>
    /\ 0 < selectionStart
    /\ selectionStart < Len(text)

----------------------------------------------------------------------------
(* Properties of prefixLine and the line actions.                          *)

\* offset of the first character of the line containing offset c: the
\* offset after the nearest newline before c, or 0
LineStartOf(t, c) ==
    CHOOSE i \in 0..c :
        /\ i = 0 \/ t[i] = "\n"
        /\ \A j \in (i + 1)..c : t[j] # "\n"

\* offset of the end of the line containing offset c: the offset of the
\* first newline at or after c, or the length of the text
LineEndOf(t, c) ==
    CHOOSE k \in c..Len(t) :
        /\ k = Len(t) \/ t[k + 1] = "\n"
        /\ \A j \in (c + 1)..k : t[j] # "\n"

\* the line of t that contains offset c starts with p
LineHasPrefix(t, c, p) ==
    /\ LineStartOf(t, c) + Len(p) <= LineEndOf(t, c)
    /\ \A i \in 1..Len(p) : t[LineStartOf(t, c) + i] = p[i]

\* the prefix a line operation toggles
PrefixOf(name, p, l) ==
    CASE name = "prefixLine" -> p
      [] name = "heading" -> headingPrefix(l)
      [] name = "bulletList" -> BulletPrefix
      [] name = "orderedList" -> OrderedPrefix
      [] name = "taskList" -> TaskPrefix
      [] name = "blockquote" -> QuotePrefix

HasNewline(p) == \E i \in 1..Len(p) : p[i] = "\n"

\* C6: prefixLine changes only the line containing cursorPosition: when the
\* line starts with prefix the result is the text without the first
\* length(prefix) characters of that line, otherwise the text with prefix
\* inserted at the start of that line.
C6_PrefixLineText ==
    (Returned /\ op = "prefixLine") =>
        LET lineStart == LineStartOf(text, selectionStart)
        IN  IF LineHasPrefix(text, selectionStart, prefix)
            THEN result.formattedText =
                     Slice(text, 0, lineStart)
                         \o Slice(text, lineStart + Len(prefix), Len(text))
            ELSE result.formattedText =
                     Slice(text, 0, lineStart) \o prefix
                         \o Slice(text, lineStart, Len(text))

\* a non-empty prefix was removed from a line that is neither the first nor
\* the last of the text
C6_Witness ==
    /\ pc = "returned"
    /\ op = "prefixLine"
    /\ prefix # <<>>
    /\ LineStartOf(text, selectionStart) > 0
    /\ LineEndOf(text, selectionStart) < Len(text)
    /\ LineHasPrefix(text, selectionStart, prefix)
    /\ Len(result.formattedText) < Len(text)

\* C7: prefixLine returns a collapsed selection at the new cursor, which is
\* cursorPosition + length(prefix) after an add and
\* max(lineStart, cursorPosition - length(prefix)) after a remove, and which
\* lies between the start and the end of the modified line.
C7_PrefixLineCursor ==
    (Returned /\ op = "prefixLine") =>
        LET lineStart == LineStartOf(text, selectionStart)
            lineEnd == LineEndOf(text, selectionStart)
            removed == LineHasPrefix(text, selectionStart, prefix)
            newLineEnd == IF removed THEN lineEnd - Len(prefix) ELSE lineEnd + Len(prefix)
            cursor == result.cursorPosition
        IN  /\ result.selectionStart = cursor
            /\ result.selectionEnd = cursor
            /\ removed => cursor = Max(lineStart, selectionStart - Len(prefix))
            /\ ~removed => cursor = selectionStart + Len(prefix)
            /\ lineStart <= cursor
            /\ cursor <= newLineEnd
            /\ LineEndOf(result.formattedText, cursor) = newLineEnd
            /\ ~HasNewline(prefix) => LineStartOf(result.formattedText, cursor) = lineStart

\* a prefix was removed while the cursor was inside it, on a line that is
\* not the first
C7_Witness ==
    /\ pc = "returned"
    /\ op = "prefixLine"
    /\ LineHasPrefix(text, selectionStart, prefix)
    /\ LineStartOf(text, selectionStart) > 0
    /\ selectionStart - Len(prefix) < LineStartOf(text, selectionStart)
    /\ result.cursorPosition = LineStartOf(text, selectionStart)

\* the first of two calls was made on a line that did not start with p
FirstCallAdded(p) ==
    /\ pc = "repeated"
    /\ Len(first.formattedText) = Len(origText) + Len(p)
    /\ Len(p) > 0

\* C8 as claimed: for every prefix, when prefixLine adds the prefix, calling
\* it again on the returned text at the returned cursor gives back the
\* original text.
C8_AddThenRemoveAnyPrefix ==
    (op = "prefixLine" /\ FirstCallAdded(prefix)) =>
        result.formattedText = origText

\* C8 amended: for every prefix that contains no newline character, when
\* prefixLine adds the prefix, calling it again on the returned text at the
\* returned cursor gives back the original text.
C8_AddThenRemove ==
    (op = "prefixLine" /\ FirstCallAdded(prefix) /\ ~HasNewline(prefix)) =>
        result.formattedText = origText

\* a prefix was added to a line that is not the first, and removed again
C8_Witness ==
    /\ op = "prefixLine"
    /\ FirstCallAdded(prefix)
    /\ ~HasNewline(prefix)
    /\ LineStartOf(text, selectionStart) > 0
    /\ result.formattedText = origText
    /\ text # origText

\* C9: a line-prefix action applied twice in a row on the same line gives
\* back the original text, whether or not the line started with the prefix.
C9_LineActionTwice ==
    (pc = "repeated" /\ op \in LinePrefixActions) =>
        result.formattedText = origText

\* the prefix formatHeading must use for a level
ClampedHeadingPrefix(l) ==
    CASE l <= 1 -> <<"#", " ">>
      [] l = 2 -> <<"#", "#", " ">>
      [] l = 3 -> <<"#", "#", "#", " ">>
      [] l = 4 -> <<"#", "#", "#", "#", " ">>
      [] l = 5 -> <<"#", "#", "#", "#", "#", " ">>
      [] l >= 6 -> <<"#", "#", "#", "#", "#", "#", " ">>

\* C10: for every integer level, formatHeading(text, pos, level) is
\* prefixLine(text, pos, P) with P = n times '#' and one space,
\* n = min(max(level, 1), 6).
C10_HeadingClamp ==
    (Returned /\ op = "heading") =>
        result = prefixLine(text, selectionStart, ClampedHeadingPrefix(level))

\* a heading of a level below 1 was added to a line
C10_Witness ==
    /\ pc = "returned"
    /\ op = "heading"
    /\ level < 1
    /\ Len(result.formattedText) = Len(text) + 2

----------------------------------------------------------------------------
(* Properties of the wrap actions and of the action library as a whole.    *)

\* the placeholder the action table gives a wrap action for an empty selection
TablePlaceholder(name) ==
    CASE name = "bold" ->
           <<"*", "*", "b", "o", "l", "d", " ", "t", "e", "x", "t", "*",
             "*">>
      [] name = "italic" ->
           <<"*", "i", "t", "a", "l", "i", "c", " ", "t", "e", "x", "t",
             "*">>
      [] name = "strikethrough" ->
           <<"~", "~", "s", "t", "r", "i", "k", "e", "t", "h", "r", "o",
             "u", "g", "h", "~", "~">>
      [] name = "code" ->
           <<Backtick, "c", "o", "d", "e", Backtick>>
      [] name = "link" ->
           <<"[", "l", "i", "n", "k", " ", "t", "e", "x", "t", "]", "(",
             "h", "t", "t", "p", "s", ":", "/", "/", "e", "x", "a", "m",
             "p", "l", "e", ".", "c", "o", "m", ")">>
      [] name = "image" ->
           <<"!", "[", "a", "l", "t", " ", "t", "e", "x", "t", "]", "(",
             "h", "t", "t", "p", "s", ":", "/", "/", "e", "x", "a", "m",
             "p", "l", "e", ".", "c", "o", "m", "/", "i", "m", "a", "g",
             "e", ".", "p", "n", "g", ")">>

\* the opening marker the action table gives a wrap action
TableBefore(name) ==
    CASE name = "bold" ->
           <<"*", "*">>
      [] name = "italic" ->
           <<"*">>
      [] name = "strikethrough" ->
           <<"~", "~">>
      [] name = "code" ->
           <<Backtick>>
      [] name = "link" ->
           <<"[">>
      [] name = "image" ->
           <<"!", "[">>

\* the closing marker the action table gives a wrap action
TableAfter(name) ==
    CASE name = "bold" ->
           <<"*", "*">>
      [] name = "italic" ->
           <<"*">>
      [] name = "strikethrough" ->
           <<"~", "~">>
      [] name = "code" ->
           <<Backtick>>
      [] name = "link" ->
           <<"]", "(", "h", "t", "t", "p", "s", ":", "/", "/", "e", "x",
             "a", "m", "p", "l", "e", ".", "c", "o", "m", ")">>
      [] name = "image" ->
           <<"]", "(", "h", "t", "t", "p", "s", ":", "/", "/", "e", "x",
             "a", "m", "p", "l", "e", ".", "c", "o", "m", "/", "i", "m",
             "a", "g", "e", ".", "p", "n", "g", ")">>

SelectionEndIgnored ==
    \A e2 \in selectionStart..Len(text) :
        Run(op, text, selectionStart, e2, before, after, insertText, prefix, level)
            = result

\* growth of the text by the call
Growth == Len(result.formattedText) - Len(text)

FourStars == <<"*", "*", "*", "*">>

\* C13: wrap actions do not strip markers.  Bold applied to a non-empty
\* selection and again to the returned text and selection leaves the selected
\* text between two `****`; every application of a wrap action makes the
\* text longer (bold on a selection by 4), so no repetition gives back the
\* original text.
C13_WrapNeverToggles ==
    /\ (Returned /\ op \in WrapActions) => Growth > 0
    /\ (Returned /\ op = "bold" /\ selectionStart < selectionEnd) => Growth = 4
    /\ (pc = "repeated" /\ op \in WrapActions) => result.formattedText # origText
    /\ (pc = "repeated" /\ op = "bold" /\ Len(first.formattedText) = Len(origText) + 4) =>
           LET s == first.selectionStart - 2
               e == first.selectionEnd - 2
           IN  /\ result.formattedText =
                      Slice(origText, 0, s) \o FourStars \o Slice(origText, s, e)
                          \o FourStars \o Slice(origText, e, Len(origText))
               /\ Len(result.formattedText) = Len(origText) + 8

\* bold was applied twice to a non-empty selection
C13_Witness ==
    /\ pc = "repeated"
    /\ op = "bold"
    /\ Len(first.formattedText) = Len(origText) + 4
    /\ Len(origText) > 1
    /\ Len(result.formattedText) = Len(origText) + 8

\* C14: an action only inserts characters, except that the remove branch of
\* a line-prefix action deletes exactly the prefix: the text before the edit
\* point and the text after it are found unchanged and in order in
\* formattedText, and taking the inserted characters out gives the text back.
C14_ContentPreserved ==
    (Returned /\ op \in ActionNames) =>
        LET formatted == result.formattedText
            lineStart == LineStartOf(text, selectionStart)
            p == PrefixOf(op, prefix, level)
        IN  CASE op \in LinePrefixActions /\ Growth < 0 ->
                     /\ Growth = 0 - Len(p)
                     /\ Slice(text, lineStart, lineStart + Len(p)) = p
                     /\ Slice(formatted, 0, lineStart) = Slice(text, 0, lineStart)
                     /\ Slice(formatted, lineStart, Len(formatted))
                            = Slice(text, lineStart + Len(p), Len(text))
              [] op \in LinePrefixActions /\ Growth >= 0 ->
                     /\ Slice(formatted, lineStart, lineStart + Growth) = p
                     /\ Slice(formatted, 0, lineStart) = Slice(text, 0, lineStart)
                     /\ Slice(formatted, lineStart + Growth, Len(formatted))
                            = Slice(text, lineStart, Len(text))
              [] op \in WrapActions /\ selectionStart < selectionEnd ->
                     \E opening \in 0..Max(Growth, 0) :
                         /\ Slice(formatted, 0, selectionStart) = Slice(text, 0, selectionStart)
                         /\ Slice(formatted, selectionStart + opening, selectionEnd + opening)
                                = Slice(text, selectionStart, selectionEnd)
                         /\ Slice(formatted, selectionEnd + Growth, Len(formatted))
                                = Slice(text, selectionEnd, Len(text))
              [] OTHER ->
                     /\ Growth >= 0
                     /\ Slice(formatted, 0, selectionStart) = Slice(text, 0, selectionStart)
                     /\ Slice(formatted, selectionStart + Growth, Len(formatted))
                            = Slice(text, selectionStart, Len(text))

\* a template was inserted between two characters of a text
C14_Witness ==
    /\ pc = "returned"
    /\ op \in InsertActions
    /\ 0 < selectionStart
    /\ selectionStart < Len(text)
    /\ Growth > 0

----------------------------------------------------------------------------
(* The editor: the handlers of App, Layout, Editor, Toolbar and            *)
(* FileOperations as actions on document, editorState and the textarea.    *)

\* setTimeout callbacks scheduled in one behaviour: one by each formatting
\* function invoked and one by each Tab
MaxTimers == 1

\* length up to which the content is typed
MaxTyped == 1

\* the ids handleFormatting has a case for
ActionIds ==
    {"bold", "italic", "strikethrough", "code", "heading1", "heading2", "heading3",
     "bulletList", "orderedList", "taskList", "blockquote", "codeBlock", "link",
     "image", "table", "horizontalRule"}

\* the ids of the descriptors of the registry: one for each action, and one
\* that handleFormatting has no case for
FORMATTING_ACTIONS == ActionIds \cup {"mermaid"}

\* the sets of ids the registry may give requiresSelection = true
RequiresSelectionChoices ==
    {{}, {"bold", "italic", "strikethrough", "code", "link", "image"}}

\* the buttons clicked: a wrap action, a line-prefix action and the
\* descriptor without a case
ToolbarIds == {"bold", "heading1", "mermaid"}

\* the keys pressed, as <<key, shiftKey, ctrlKey or metaKey>>
KeyEvents ==
    {<<"b", FALSE, TRUE>>, <<"i", FALSE, TRUE>>, <<"I", TRUE, TRUE>>,
     <<"x", FALSE, TRUE>>, <<"b", FALSE, FALSE>>}

\* what a key stroke puts in place of the selection: a character, or nothing
\* (Backspace, Delete or cut of a selection)
TypedTexts == {<<"a">>, <<>>}

InitialContents == {<<>>, <<"a">>}

UploadedContents == {<<"a", "\n">>}

Filenames == {"document.md", "notes.md"}

DefaultFilename == "document.md"

\* the offsets the user puts the ends of the selection at
SelectablePositions(value) == {0, Len(value)}

\* the switch of handleFormatting
FormattingCall(id, textContent, s, e) ==
    CASE id = "bold" -> formatBold(textContent, s, e)
      [] id = "italic" -> formatItalic(textContent, s, e)
      [] id = "strikethrough" -> formatStrikethrough(textContent, s, e)
      [] id = "code" -> formatInlineCode(textContent, s, e)
      [] id = "heading1" -> formatHeading(textContent, s, 1)
      [] id = "heading2" -> formatHeading(textContent, s, 2)
      [] id = "heading3" -> formatHeading(textContent, s, 3)
      [] id = "bulletList" -> formatBulletList(textContent, s)
      [] id = "orderedList" -> formatOrderedList(textContent, s)
      [] id = "taskList" -> formatTaskList(textContent, s)
      [] id = "blockquote" -> formatBlockquote(textContent, s)
      [] id = "codeBlock" -> formatCodeBlock(textContent, s)
      [] id = "link" -> formatLink(textContent, s, e)
      [] id = "image" -> formatImage(textContent, s, e)
      [] id = "table" -> insertTable(textContent, s)
      [] id = "horizontalRule" -> insertHorizontalRule(textContent, s)

\* an offset assigned to selectionStart or selectionEnd of the textarea is
\* converted to unsigned long, so that a negative one becomes a large one,
\* and is limited to the length of the value
ClampDom(v, length) == IF v < 0 \/ v > length THEN length ELSE v

\* textarea.selectionStart = v
SetDomSelectionStart(selection, v, length) ==
    LET start == ClampDom(v, length)
    IN  <<start, Max(selection[2], start)>>

\* textarea.selectionEnd = v
SetDomSelectionEnd(selection, v, length) ==
    LET end == ClampDom(v, length)
    IN  <<Min(selection[1], end), end>>

\* the selection of the textarea once React has written newValue to it: the
\* caret goes to the end when the value differs from the one it holds
ValueWritten(newValue) ==
    IF newValue = content
    THEN UNCHANGED textarea
    ELSE /\ domSelectionStart' = Len(newValue)
         /\ domSelectionEnd' = Len(newValue)

\* content.trim() === ''
IsBlank(value) == \A i \in 1..Len(value) : value[i] \in {" ", "\n"}

Record(name, newContent, newFilename, id, textContent, s, e, from, pending) ==
    /\ handler' = name
    /\ givenContent' = newContent
    /\ givenFilename' = newFilename
    /\ invokedAction' = id
    /\ invokedText' = textContent
    /\ invokedStart' = s
    /\ invokedEnd' = e
    /\ invokedFrom' = from
    /\ pendingAtInvocation' = pending

RecordHandler(name) == Record(name, <<>>, "", "none", <<>>, 0, 0, "none", 0)

\* handleContentChange without the dirty flag
handleContentChange_clean(newContent) ==
    /\ content' = newContent
    /\ UNCHANGED <<filename, isDirty>>

\* handleContentChange of App
handleContentChange(newContent) ==
    /\ content' = newContent
    /\ isDirty' = TRUE
    /\ UNCHANGED filename

\* handleFormatting marking the document dirty for an id it has no case for
handleFormatting_defaultDirty(id, textContent, s, e, from) ==
    IF id \in ActionIds
    THEN LET formatResult == FormattingCall(id, textContent, s, e)
         IN  /\ scheduled < MaxTimers
             /\ scheduled' = scheduled + 1
             /\ handleContentChange(formatResult.formattedText)
             /\ ValueWritten(formatResult.formattedText)
             /\ pendingRestores' = Append(pendingRestores,
                    <<"format", formatResult.selectionStart, formatResult.selectionEnd>>)
             /\ Record("handleFormatting", <<>>, "", id, textContent, s, e, from,
                       Len(pendingRestores))
             /\ UNCHANGED <<editorState, selectionRequired>>
    ELSE /\ handleContentChange(content)
         /\ Record("handleFormatting", <<>>, "", id, textContent, s, e, from,
                   Len(pendingRestores))
         /\ UNCHANGED <<editorState, textarea, pendingRestores, selectionRequired,
                        scheduled>>

\* handleFormatting of Layout: the formatting function of the id is invoked,
\* the content replaced and the restoration of the selection left to a timer;
\* nothing is done for an id without a case
handleFormatting(id, textContent, s, e, from) ==
    IF id \in ActionIds
    THEN LET formatResult == FormattingCall(id, textContent, s, e)
         IN  /\ scheduled < MaxTimers
             /\ scheduled' = scheduled + 1
             /\ handleContentChange(formatResult.formattedText)
             /\ ValueWritten(formatResult.formattedText)
             /\ pendingRestores' = Append(pendingRestores,
                    <<"format", formatResult.selectionStart, formatResult.selectionEnd>>)
             /\ Record("handleFormatting", <<>>, "", id, textContent, s, e, from,
                       Len(pendingRestores))
             /\ UNCHANGED <<editorState, selectionRequired>>
    ELSE /\ Record("handleFormatting", <<>>, "", id, textContent, s, e, from,
                   Len(pendingRestores))
         /\ UNCHANGED <<document, editorState, textarea, pendingRestores,
                        selectionRequired, scheduled>>

\* isButtonDisabled of Toolbar
isButtonDisabled(id) ==
    id \in selectionRequired /\ editorSelectionStart = editorSelectionEnd

\* the action the keydown handler of Layout dispatches for a key, "none"
\* when it has none: the branches are tried in the order of the source
ShortcutAction(key, shiftKey) ==
    IF key \in {"b", "B"} THEN "bold"
    ELSE IF key \in {"i", "I"} THEN "italic"
    ELSE IF key \in {"d", "D"} THEN "strikethrough"
    ELSE IF key \in {"k", "K"} THEN "link"
    ELSE IF key \in {"i", "I"} /\ shiftKey THEN "image"
    ELSE IF key = Backtick THEN "code"
    ELSE "none"

InitEditor ==
    /\ text = <<>>
    /\ selectionStart = 0
    /\ selectionEnd = 0
    /\ pc = "idle"
    /\ op = "none"
    /\ before = <<>>
    /\ after = Omitted
    /\ insertText = <<>>
    /\ prefix = <<>>
    /\ level = 0
    /\ origText = <<>>
    /\ first = NoResult
    /\ result = NoResult
    /\ content \in InitialContents
    /\ filename = DefaultFilename
    /\ isDirty = FALSE
    /\ editorSelectionStart = 0 - 1
    /\ editorSelectionEnd = 0 - 1
    /\ domSelectionStart \in {0, Len(content)}
    /\ domSelectionEnd = domSelectionStart
    /\ pendingRestores = <<>>
    /\ selectionRequired \in RequiresSelectionChoices
    /\ scheduled = 0
    /\ handler = "none"
    /\ NoInvocation
    /\ AppAtRest

\* a key stroke in the textarea replaces its selection and handleChange of
\* Editor passes the new value on
Type ==
    \E typed \in TypedTexts :
        LET newValue == SubSeq(content, 1, domSelectionStart) \o typed
                            \o SubSeq(content, domSelectionEnd + 1, Len(content))
        IN  /\ newValue # content
            /\ typed # <<>> => Len(content) < MaxTyped
            /\ handleContentChange(newValue)
            /\ domSelectionStart' = domSelectionStart + Len(typed)
            /\ domSelectionEnd' = domSelectionStart + Len(typed)
            /\ Record("handleChange", newValue, "", "none", <<>>, 0, 0, "none", 0)
            /\ UNCHANGED <<vars, appVars, editorState, pendingRestores, selectionRequired, scheduled>>

\* the Tab key in the textarea: handleKeyDown of Editor puts two spaces in
\* place of the selection and leaves the caret to a timer
Tab ==
    LET newValue == SubSeq(content, 1, domSelectionStart) \o <<" ", " ">>
                        \o SubSeq(content, domSelectionEnd + 1, Len(content))
    IN  /\ Len(content) < MaxTyped
        /\ scheduled < MaxTimers
        /\ scheduled' = scheduled + 1
        /\ handleContentChange(newValue)
        /\ ValueWritten(newValue)
        /\ pendingRestores' = Append(pendingRestores,
               <<"tab", domSelectionStart + 2, domSelectionStart + 2>>)
        /\ Record("handleKeyDown", newValue, "", "none", <<>>, 0, 0, "none", 0)
        /\ UNCHANGED <<vars, appVars, editorState, selectionRequired>>

\* the user moves the selection of the textarea and handleSelect or
\* handleClick of Editor reports it
Select ==
    \E s \in SelectablePositions(content) :
        \E e \in {p \in SelectablePositions(content) : s <= p} :
            /\ domSelectionStart' = s
            /\ domSelectionEnd' = e
            /\ editorSelectionStart' = s
            /\ editorSelectionEnd' = e
            /\ RecordHandler("handleSelect")
            /\ UNCHANGED <<vars, appVars, document, pendingRestores, selectionRequired, scheduled>>

\* a select event after the selection of the textarea was changed by a key
\* stroke or by the program: handleSelect of Editor reports it
SelectEvent ==
    /\ editorState # textarea
    /\ editorSelectionStart' = domSelectionStart
    /\ editorSelectionEnd' = domSelectionEnd
    /\ RecordHandler("handleSelect")
    /\ UNCHANGED <<vars, appVars, document, textarea, pendingRestores, selectionRequired, scheduled>>

\* the filename input of Layout
FilenameChange ==
    \E newFilename \in Filenames :
        /\ newFilename # filename
        /\ filename' = newFilename
        /\ isDirty' = TRUE
        /\ Record("handleFilenameChange", <<>>, newFilename, "none", <<>>, 0, 0, "none", 0)
        /\ UNCHANGED <<vars, appVars, content, editorState, textarea, pendingRestores,
                       selectionRequired, scheduled>>

\* a button of the toolbar that is not disabled is clicked
ToolbarClick ==
    \E id \in ToolbarIds :
        /\ ~isButtonDisabled(id)
        /\ handleFormatting(id, content, editorSelectionStart, editorSelectionEnd, "toolbar")
        /\ UNCHANGED <<vars, appVars>>

\* handleKeyboardShortcuts of Layout on a keydown event; ctrlKey is the
\* modifier of the platform (e.metaKey on a Mac, e.ctrlKey elsewhere)
handleKeyboardShortcuts(key, shiftKey, ctrlKey) ==
    IF ctrlKey /\ ShortcutAction(key, shiftKey) \in FORMATTING_ACTIONS
    THEN handleFormatting(ShortcutAction(key, shiftKey), content,
                          editorSelectionStart, editorSelectionEnd, "keyboard")
    ELSE UNCHANGED editorVars

\* a key goes down
KeyDown ==
    \E e \in KeyEvents :
        /\ handleKeyboardShortcuts(e[1], e[2], e[3])
        /\ UNCHANGED <<vars, appVars>>

\* the oldest timer fires: the selection of the textarea is set
RestoreSelection ==
    /\ pendingRestores # <<>>
    /\ LET restore == Head(pendingRestores)
           set == IF restore[1] = "format"
                  THEN SetDomSelectionEnd(
                           SetDomSelectionStart(textarea, restore[2], Len(content)),
                           restore[3], Len(content))
                  ELSE SetDomSelectionStart(
                           SetDomSelectionEnd(textarea, restore[3], Len(content)),
                           restore[2], Len(content))
       IN  /\ domSelectionStart' = set[1]
           /\ domSelectionEnd' = set[2]
    /\ pendingRestores' = Tail(pendingRestores)
    /\ RecordHandler("restoreSelection")
    /\ UNCHANGED <<vars, appVars, document, editorState, selectionRequired, scheduled>>

\* an upload has succeeded: onFileLoaded of App
FileLoaded ==
    \E newContent \in UploadedContents, newFilename \in Filenames :
        /\ content' = newContent
        /\ filename' = newFilename
        /\ isDirty' = FALSE
        /\ ValueWritten(newContent)
        /\ Record("onFileLoaded", newContent, newFilename, "none", <<>>, 0, 0, "none", 0)
        /\ UNCHANGED <<vars, appVars, editorState, pendingRestores, selectionRequired, scheduled>>

\* the Clear button: handleClear of FileOperations and handleClearDocument
\* of App
Clear ==
    \E confirmed \in BOOLEAN :
        /\ IF ~IsBlank(content) /\ confirmed
           THEN /\ content' = <<>>
                /\ filename' = DefaultFilename
                /\ isDirty' = FALSE
                /\ ValueWritten(<<>>)
                /\ RecordHandler("handleClearDocument")
                /\ UNCHANGED <<editorState, pendingRestores, selectionRequired, scheduled>>
           ELSE UNCHANGED editorVars
        /\ UNCHANGED <<vars, appVars>>

NextEditor ==
    \/ Type
    \/ Tab
    \/ Select
    \/ SelectEvent
    \/ FilenameChange
    \/ ToolbarClick
    \/ KeyDown
    \/ RestoreSelection
    \/ FileLoaded
    \/ Clear

SpecEditor == InitEditor /\ [][NextEditor]_allVars

TypeOKEditor ==
    /\ domSelectionStart \in 0..Len(content)
    /\ domSelectionEnd \in domSelectionStart..Len(content)
    /\ isDirty \in BOOLEAN
    /\ invokedAction \in FORMATTING_ACTIONS \cup {"none"}
    /\ scheduled \in 0..MaxTimers
    /\ Len(pendingRestores) <= scheduled

----------------------------------------------------------------------------
(* Properties of the dispatch of the actions and of the document.          *)

\* the last handler was handleFormatting and it invoked a formatting function
Invoked == handler = "handleFormatting" /\ invokedAction \in ActionIds

\* a selection restore scheduled by handleFormatting has not run yet
FormatRestorePending ==
    \E i \in 1..Len(pendingRestores) : pendingRestores[i][1] = "format"

\* C15: no formatting function is invoked with a negative selectionStart or
\* selectionEnd: the -1 of a fresh editorState does not reach the functions.
C15_NoNegativeSelection ==
    Invoked => (invokedStart >= 0 /\ invokedEnd >= 0)

\* C16: every formatting function is invoked with
\* selectionStart <= selectionEnd <= length of the text it is given.
C16_SelectionWithinText ==
    Invoked => (invokedStart <= invokedEnd /\ invokedEnd <= Len(invokedText))

\* C17: the replacement of the content and the restoration of the selection
\* are one step: while a restoration is to come, nothing has run since the
\* handleFormatting that scheduled it, and it is the only one to come.
C17_ApplyIsOneStep ==
    FormatRestorePending =>
        /\ Invoked
        /\ pendingAtInvocation = 0
        /\ Len(pendingRestores) = 1

\* C18: handleFormatting given an id it has no case for changes nothing:
\* content, filename, dirty flag and selections stay, no timer is scheduled.
C18_UnknownActionNoOp ==
    [][(handler' = "handleFormatting" /\ invokedAction' \notin ActionIds) =>
           UNCHANGED <<document, editorState, textarea, pendingRestores, scheduled>>]_allVars

\* the button of the descriptor without a case was clicked on a clean,
\* non-empty document
C18_Witness ==
    /\ handler = "handleFormatting"
    /\ invokedAction = "mermaid"
    /\ invokedFrom = "toolbar"
    /\ content # <<>>
    /\ ~isDirty

\* C19: on no path, toolbar or keyboard, is an action whose descriptor has
\* requiresSelection invoked while selectionStart = selectionEnd.
C19_RequiresSelectionEnforced ==
    (Invoked /\ invokedAction \in selectionRequired) => invokedStart # invokedEnd

\* C20: a change of the content, by typing or by a formatting action, leaves
\* the document dirty with the new text as content; a change of the filename
\* leaves it dirty with the new filename; a successful upload leaves the
\* uploaded content and filename and a clean document.
C20_DirtyTracking ==
    /\ handler \in {"handleChange", "handleKeyDown"} =>
           (isDirty /\ content = givenContent)
    /\ Invoked =>
           /\ isDirty
           /\ content = FormattingCall(invokedAction, invokedText,
                                       invokedStart, invokedEnd).formattedText
    /\ handler = "handleFilenameChange" => (isDirty /\ filename = givenFilename)
    /\ handler = "onFileLoaded" =>
           (~isDirty /\ content = givenContent /\ filename = givenFilename)

\* a formatting action was applied to an uploaded document
C20_Witness ==
    /\ Invoked
    /\ invokedText = <<"a", "\n">>
    /\ filename = "notes.md"
    /\ isDirty
    /\ Len(content) > Len(invokedText)

----------------------------------------------------------------------------
(* Totality of the functions.                                              *)

\* C27: on every text and every valid offset the functions return a
\* FormatResult, and the backward scan of prefixLine ends at a lineStart with
\* 0 <= lineStart <= cursorPosition that is 0 or follows a newline, with no
\* newline between lineStart and cursorPosition.
C27_ScanEndsAtLineStart ==
    /\ Returned =>
           /\ DOMAIN result = {"formattedText", "cursorPosition", "selectionStart", "selectionEnd"}
           /\ DOMAIN result.formattedText = 1..Len(result.formattedText)
           /\ result.cursorPosition \in Int
           /\ result.selectionStart \in Int
           /\ result.selectionEnd \in Int
    /\ (Returned /\ op \in LinePrefixActions \cup {"prefixLine"}) =>
           LET lineStart == scanLineStart(text, selectionStart)
           IN  /\ 0 <= lineStart
               /\ lineStart <= selectionStart
               /\ lineStart = 0 \/ text[lineStart] = "\n"
               /\ \A j \in (lineStart + 1)..selectionStart : text[j] # "\n"

\* a line action was called with the cursor at the end of a second line that
\* follows an empty line
C27_Witness ==
    /\ pc = "returned"
    /\ op \in LinePrefixActions
    /\ selectionStart = Len(text)
    /\ Len(text) >= 3
    /\ text[1] = "\n"
    /\ text[2] = "\n"
    /\ scanLineStart(text, selectionStart) = 2

-----------------------------------------------------------------------------
(* The keyboard shortcuts of Layout, on every key they name.               *)

\* the keys of the shortcuts in both cases, and a key that has none
ShortcutKeys == {"b", "B", "i", "I", "d", "D", "k", "K", Backtick, "x"}

\* a key goes down, with or without Shift and Ctrl / Cmd; a dispatch keeps
\* the event
KeyPress ==
    \E key \in ShortcutKeys, shiftKey \in BOOLEAN, ctrlKey \in BOOLEAN :
        /\ handleKeyboardShortcuts(key, shiftKey, ctrlKey)
        /\ keyEvent' = IF ctrlKey /\ ShortcutAction(key, shiftKey) \in FORMATTING_ACTIONS
                       THEN <<key, shiftKey, ctrlKey>>
                       ELSE keyEvent
        /\ UNCHANGED <<vars, storageVars, previewVars>>

NextKeyboard ==
    \/ Type
    \/ Select
    \/ SelectEvent
    \/ KeyPress
    \/ RestoreSelection

SpecKeyboard == InitEditor /\ [][NextKeyboard]_everyVar

\* the action the comments of the handler give a key: I with Shift is the
\* image
shortcutTable(key, shiftKey) ==
    IF key \in {"b", "B"} THEN "bold"
    ELSE IF key \in {"i", "I"} /\ shiftKey THEN "image"
    ELSE IF key \in {"i", "I"} THEN "italic"
    ELSE IF key \in {"d", "D"} THEN "strikethrough"
    ELSE IF key \in {"k", "K"} THEN "link"
    ELSE IF key = Backtick THEN "code"
    ELSE "none"

KeyboardDispatched == Invoked /\ invokedFrom = "keyboard"

\* C25: every dispatch of the keyboard handler was by a key with Ctrl or Cmd
\* held, and the action is the one of the shortcut table: B bold, I without
\* Shift italic, I with Shift image and never italic, D strikethrough, K link,
\* backtick code.
C25_ShortcutRouting ==
    KeyboardDispatched =>
        /\ keyEvent[3]
        /\ invokedAction = shortcutTable(keyEvent[1], keyEvent[2])

-----------------------------------------------------------------------------
(* Files, localStorage and the auto-save of App.                           *)

\* the status timers in flight at once
MaxStatusTimers == 1

\* 1MB, the limit of validateFile and uploadMarkdown
maxSize == 1024 * 1024

validTypes == {"text/plain", "text/markdown", "application/x-markdown"}

\* file.type, file.name and file.size of the files the user picks: the empty
\* file, a file at the limit and one a byte above it
FileTypes == validTypes \cup {"", "image/png"}

FileNames == {"notes.md", "notes.txt", "photo.png"}

FileSizes == {0, maxSize, maxSize + 1}

\* a file: name, type, size, and whether the FileReader can read it
Files == FileNames \X FileTypes \X FileSizes \X BOOLEAN

fileName(file) == file[1]

fileType(file) == file[2]

fileSize(file) == file[3]

fileReadable(file) == file[4]

\* the text readAsText gives: "" for the empty file
fileText(file) == IF fileSize(file) = 0 THEN <<>> ELSE <<"b">>

\* name.endsWith('.md'), on the names of the model
endsWithMd(name) == name \in {"document.md", "notes.md", "draft.md", "notes.txt.md", "photo.png.md"}

\* `${filename}.md`, on the names of the model
appendMd(name) ==
    CASE name = "draft" -> "draft.md"
      [] name = "notes.txt" -> "notes.txt.md"
      [] name = "photo.png" -> "photo.png.md"
      [] OTHER -> "document.md"

isValidType(file) == fileType(file) \in validTypes \/ endsWithMd(fileName(file))

\* validateFile of file.ts: <<valid, error>>
validateFile(file) ==
    IF ~isValidType(file)
    THEN <<FALSE, "File must be a markdown file (.md or .txt)">>
    ELSE IF fileSize(file) > maxSize
    THEN <<FALSE, "File is too large. Maximum size is 1MB">>
    ELSE <<TRUE, "">>

\* what the promise of uploadMarkdown resolves with:
\* <<success, content, filename, error>>
uploadMarkdown(file) ==
    IF ~isValidType(file)
    THEN <<FALSE, <<>>, "", "Please select a valid markdown file (.md or .txt)">>
    ELSE IF fileSize(file) > maxSize
    THEN <<FALSE, <<>>, "", "File size exceeds maximum of 1MB">>
    ELSE IF ~fileReadable(file)
    THEN <<FALSE, <<>>, "", "Failed to read file">>
    ELSE IF fileText(file) = <<>>
    THEN <<FALSE, <<>>, "", "Failed to read file content">>
    ELSE <<TRUE, fileText(file), fileName(file), "">>

\* safeFilename of downloadMarkdown
safeFilename(name) == IF endsWithMd(name) THEN name ELSE appendMd(name)

\* what the user types into the textarea and the filename input
EditedContents == {<<>>, <<"a">>}

EditedFilenames == {"notes.md", "draft"}

\* the document the initialiser of useState builds from the stored item
loadedDocument(item) ==
    IF item # <<>> THEN <<item[1], item[2], FALSE>> ELSE <<<<>>, DefaultFilename, FALSE>>

\* saveToLocalStorage: the item afterwards, setItem having thrown or not
saveToLocalStorage(item, written) == IF written THEN item ELSE storedDocument

\* the parts of the state the file operations leave alone
storageFrame ==
    <<vars, keyEvent, previewVars, editorState, textarea, pendingRestores,
      selectionRequired, scheduled>>

\* the auto-save effect of App: its cleanup clears the timer and a new timer
\* captures the document
autoSaveEffect ==
    /\ autoSaveTimer' = <<content', filename', isDirty'>>
    /\ effectPending' = FALSE

\* a render in a discrete event runs the effects that are still pending
flushEffect ==
    IF effectPending
    THEN autoSaveEffect
    ELSE UNCHANGED <<autoSaveTimer, effectPending>>

\* the application starts in a browser with nothing stored
InitStorage ==
    /\ text = <<>>
    /\ selectionStart = 0
    /\ selectionEnd = 0
    /\ pc = "idle"
    /\ op = "none"
    /\ before = <<>>
    /\ after = Omitted
    /\ insertText = <<>>
    /\ prefix = <<>>
    /\ level = 0
    /\ origText = <<>>
    /\ first = NoResult
    /\ result = NoResult
    /\ content = <<>>
    /\ filename = DefaultFilename
    /\ isDirty = FALSE
    /\ editorSelectionStart = 0 - 1
    /\ editorSelectionEnd = 0 - 1
    /\ domSelectionStart = 0
    /\ domSelectionEnd = 0
    /\ pendingRestores = <<>>
    /\ selectionRequired = {}
    /\ scheduled = 0
    /\ handler = "none"
    /\ NoInvocation
    /\ keyEvent = <<>>
    /\ storedDocument = <<>>
    /\ autoSaveTimer = <<<<>>, DefaultFilename, FALSE>>
    /\ effectPending = FALSE
    /\ upload = <<>>
    /\ statusType = "null"
    /\ statusTimers = 0
    /\ runs = <<>>
    /\ mermaidSvgs = <<>>
    /\ previewContent = <<>>

\* the user edits the text: handleContentChange of App
Edit ==
    \E newContent \in EditedContents :
        /\ newContent # content
        /\ handleContentChange(newContent)
        /\ autoSaveEffect
        /\ Record("handleContentChange", newContent, "", "none", <<>>, 0, 0, "none", 0)
        /\ UNCHANGED <<storageFrame, storedDocument, upload, statusType, statusTimers>>

\* the user edits the filename: handleFilenameChange of App
Rename ==
    \E newFilename \in EditedFilenames :
        /\ newFilename # filename
        /\ filename' = newFilename
        /\ isDirty' = TRUE
        /\ UNCHANGED <<storageFrame, content, storedDocument, upload, statusType,
                       statusTimers>>
        /\ autoSaveEffect
        /\ Record("handleFilenameChange", <<>>, newFilename, "none", <<>>, 0, 0, "none", 0)

\* handleDownload of FileOperations taking the downloaded document for saved
handleDownload_markSaved(succeeds) ==
    /\ content' = content
    /\ filename' = filename
    /\ isDirty' = FALSE
    /\ autoSaveEffect
    /\ IF succeeds
       THEN /\ statusTimers < MaxStatusTimers
            /\ statusType' = "success"
            /\ statusTimers' = statusTimers + 1
       ELSE /\ statusType' = "error"
            /\ UNCHANGED statusTimers

\* handleDownload of FileOperations, downloadMarkdown succeeding or throwing
handleDownload(succeeds) ==
    /\ UNCHANGED document
    /\ flushEffect
    /\ IF succeeds
       THEN /\ statusTimers < MaxStatusTimers
            /\ statusType' = "success"
            /\ statusTimers' = statusTimers + 1
       ELSE /\ statusType' = "error"
            /\ UNCHANGED statusTimers

\* the Download button; what downloadMarkdown puts into the Blob and the name
\* it gives the link are kept
Download ==
    \E succeeds \in BOOLEAN :
        /\ handleDownload(succeeds)
        /\ Record("handleDownload", content, safeFilename(filename), "none", <<>>, 0, 0,
                  "none", 0)
        /\ UNCHANGED <<storageFrame, storedDocument, upload>>

\* the user picks a file: handleFileChange of FileOperations up to its await
SelectFile ==
    \E file \in Files :
        /\ upload = <<>>
        /\ IF validateFile(file)[1]
           THEN /\ statusType' = "loading"
                /\ upload' = file
           ELSE /\ statusType' = "error"
                /\ upload' = <<>>
        /\ UNCHANGED <<storageFrame, document, storedDocument, statusTimers>>
        /\ flushEffect
        /\ RecordHandler("handleFileChange")

\* onFileLoaded of App
onFileLoaded(newContent, newFilename) ==
    /\ content' = newContent
    /\ filename' = newFilename
    /\ isDirty' = FALSE

\* the rest of handleFileChange loading the file whatever the result
afterUpload_alwaysLoads(file, uploadResult) ==
    /\ onFileLoaded(fileText(file), fileName(file))
    /\ effectPending' = TRUE
    /\ IF uploadResult[1]
       THEN /\ statusTimers < MaxStatusTimers
            /\ statusType' = "success"
            /\ statusTimers' = statusTimers + 1
       ELSE /\ statusType' = "error"
            /\ UNCHANGED statusTimers

\* the rest of handleFileChange, once the promise has resolved: the updates
\* are made outside an event, the effects run later
afterUpload(file, uploadResult) ==
    IF uploadResult[1]
    THEN /\ statusTimers < MaxStatusTimers
         /\ onFileLoaded(uploadResult[2], uploadResult[3])
         /\ effectPending' = TRUE
         /\ statusType' = "success"
         /\ statusTimers' = statusTimers + 1
    ELSE /\ statusType' = "error"
         /\ UNCHANGED <<document, effectPending, statusTimers>>

\* the promise of uploadMarkdown resolves
UploadResolves ==
    /\ upload # <<>>
    /\ afterUpload(upload, uploadMarkdown(upload))
    /\ upload' = <<>>
    /\ Record("uploadMarkdown", uploadMarkdown(upload)[2], uploadMarkdown(upload)[3],
              "none", <<>>, 0, 0, "none", 0)
    /\ UNCHANGED <<storageFrame, storedDocument, autoSaveTimer>>

\* the Clear button: handleClear of FileOperations and handleClearDocument
\* of App, the user confirming or not, setItem throwing or not
ClearDocument ==
    \E confirmed \in BOOLEAN, written \in BOOLEAN :
        /\ statusTimers < MaxStatusTimers
        /\ statusTimers' = statusTimers + 1
        /\ IF IsBlank(content)
           THEN /\ statusType' = "error"
                /\ UNCHANGED <<document, storedDocument>>
                /\ flushEffect
                /\ RecordHandler("handleClear")
           ELSE /\ statusType' = "success"
                /\ IF confirmed
                   THEN /\ content' = <<>>
                        /\ filename' = DefaultFilename
                        /\ isDirty' = FALSE
                        /\ autoSaveEffect
                        /\ storedDocument' =
                               saveToLocalStorage(<<<<>>, DefaultFilename>>, written)
                        /\ RecordHandler("handleClearDocument")
                   ELSE /\ UNCHANGED <<document, storedDocument>>
                        /\ flushEffect
                        /\ RecordHandler("handleClear")
        /\ UNCHANGED <<storageFrame, upload>>

\* React renders after updates made outside an event and runs the auto-save
\* effect
RunEffect ==
    /\ effectPending
    /\ UNCHANGED <<storageFrame, document, storedDocument, upload, statusType,
                   statusTimers>>
    /\ autoSaveEffect
    /\ RecordHandler("useEffect")

\* the callback of the auto-save timer, with the document it has captured,
\* setItem throwing or not
AutoSave ==
    \E written \in BOOLEAN :
        /\ autoSaveTimer # <<>>
        /\ autoSaveTimer' = <<>>
        /\ IF autoSaveTimer[3]
           THEN /\ storedDocument' =
                       saveToLocalStorage(<<autoSaveTimer[1], autoSaveTimer[2]>>, written)
                /\ content' = autoSaveTimer[1]
                /\ filename' = autoSaveTimer[2]
                /\ isDirty' = FALSE
                /\ effectPending' = TRUE
           ELSE UNCHANGED <<document, storedDocument, effectPending>>
        /\ Record("autoSave", autoSaveTimer[1], autoSaveTimer[2], "none", <<>>, 0, 0, "none", 0)
        /\ UNCHANGED <<storageFrame, upload, statusType, statusTimers>>

\* a timer of FileOperations clears the status
ClearStatus ==
    /\ statusTimers > 0
    /\ statusTimers' = statusTimers - 1
    /\ statusType' = "null"
    /\ RecordHandler("clearStatus")
    /\ UNCHANGED <<storageFrame, document, storedDocument, autoSaveTimer, effectPending,
                   upload>>

\* the page is loaded again: App starts from the stored item
Restart ==
    /\ content' = loadedDocument(storedDocument)[1]
    /\ filename' = loadedDocument(storedDocument)[2]
    /\ isDirty' = loadedDocument(storedDocument)[3]
    /\ autoSaveEffect
    /\ upload' = <<>>
    /\ statusType' = "null"
    /\ statusTimers' = 0
    /\ RecordHandler("App")
    /\ UNCHANGED <<storageFrame, storedDocument>>

NextStorage ==
    \/ Edit
    \/ Rename
    \/ Download
    \/ SelectFile
    \/ UploadResolves
    \/ ClearDocument
    \/ RunEffect
    \/ AutoSave
    \/ ClearStatus
    \/ Restart

SpecStorage == InitStorage /\ [][NextStorage]_everyVar

-----------------------------------------------------------------------------
(* Claims on downloads, uploads and the stored document.                   *)

\* C21: a download, succeeding or failing, leaves content, filename and isDirty
\* as they were, and the content handed to the browser is the content of the
\* document at that moment, unsaved changes included.
C21_DownloadLeavesDocument ==
    [][handler' = "handleDownload" =>
           /\ content' = content
           /\ filename' = filename
           /\ isDirty' = isDirty
           /\ givenContent' = content]_everyVar

C21_Witness ==
    /\ handler = "handleDownload"
    /\ statusType = "success"
    /\ isDirty
    /\ content = <<"a">>
    /\ givenContent = <<"a">>
    /\ storedDocument = <<>>

\* C22: nothing of the document outlives the session without an explicit
\* save: whenever the application starts, it starts with the default empty
\* document.
C22_NoPersistence ==
    [][handler' = "App" =>
           /\ content' = <<>>
           /\ filename' = DefaultFilename]_everyVar

\* the auto-save timer fires on a document captured dirty
DirtyTimerFires == handler' = "autoSave" /\ autoSaveTimer[3]

\* C26: the auto-save is debounced. Once the effects have run, the pending
\* timer is the one started for the current document; the stored item changes
\* only when the timer fires on a dirty document (or on Clear, which stores the
\* empty document itself); and when the timer fires on a dirty document, the
\* document is written and the flag in memory is cleared.
C26_DebouncedAutoSave ==
    [][/\ (~effectPending' /\ autoSaveTimer' # <<>>) =>
              autoSaveTimer' = <<content', filename', isDirty'>>
       /\ storedDocument' # storedDocument =>
              DirtyTimerFires \/ handler' = "handleClearDocument"
       /\ DirtyTimerFires =>
              /\ storedDocument' = <<autoSaveTimer[1], autoSaveTimer[2]>>
              /\ ~isDirty']_everyVar

\* C28: whenever the document is not dirty and no auto-save timer is pending,
\* starting the application again would give the content and filename that
\* are in memory.
C28_StoredAgreesWithMemory ==
    (~isDirty /\ autoSaveTimer = <<>> /\ ~effectPending) =>
        /\ loadedDocument(storedDocument)[1] = content
        /\ loadedDocument(storedDocument)[2] = filename

\* C29: when the callback of the auto-save timer puts its captured document
\* back into the state, the content and filename it writes are those of the
\* document at that moment.
C29_AutoSaveKeepsEdits ==
    [][DirtyTimerFires =>
           /\ autoSaveTimer[1] = content
           /\ autoSaveTimer[2] = filename]_everyVar

\* the validation as the documents state it: a text or markdown type or a
\* name in .md, and at most 1,048,576 bytes
passesValidation(file) ==
    /\ fileType(file) \in {"text/plain", "text/markdown", "application/x-markdown"}
           \/ endsWithMd(fileName(file))
    /\ fileSize(file) <= 1048576

\* a file named .md or .txt
isMdOrTxt(file) == fileName(file) \in {"notes.md", "notes.txt"}

\* the promise of uploadMarkdown resolves in this step
Resolved == handler' = "uploadMarkdown"

\* C23: a file is loaded only if it passes the validation; validateFile and
\* uploadMarkdown accept the same files; and every readable .md or .txt file
\* within the limit is loaded.
C23_LoadedIffValid ==
    [][Resolved =>
           /\ statusType' = "success" => passesValidation(upload)
           /\ fileReadable(upload) =>
                  (validateFile(upload)[1] <=> uploadMarkdown(upload)[1])
           /\ (isMdOrTxt(upload) /\ fileSize(upload) <= maxSize /\ fileReadable(upload)) =>
                  /\ statusType' = "success"
                  /\ content' = fileText(upload)
                  /\ filename' = fileName(upload)]_everyVar

\* a file uploadMarkdown has a reason to refuse
Refused(file) ==
    \/ ~isValidType(file)
    \/ fileSize(file) > maxSize
    \/ ~fileReadable(file)
    \/ fileText(file) = <<>>

\* uploadMarkdown resolves every file it refuses with success = false and a
\* message
RefusalIsValue ==
    \A file \in Files :
        Refused(file) => (~uploadMarkdown(file)[1] /\ uploadMarkdown(file)[4] # "")

\* C24: for an invalid type, a file over 1MB, a read error or empty content,
\* uploadMarkdown resolves with success = false and an error message; and
\* whenever the validation or the upload fails, content, filename and isDirty
\* stay as they were and the status is an error.
C24_UploadFailureIsValue ==
    [][/\ RefusalIsValue
       /\ (Resolved /\ ~uploadMarkdown(upload)[1]) =>
              /\ <<content', filename', isDirty'>> = <<content, filename, isDirty>>
              /\ statusType' = "error"
       /\ (handler' = "handleFileChange" /\ upload' = <<>>) =>
              /\ <<content', filename', isDirty'>> = <<content, filename, isDirty>>
              /\ statusType' = "error"]_everyVar

C24_Witness ==
    /\ handler = "uploadMarkdown"
    /\ statusType = "error"
    /\ upload = <<>>
    /\ content = <<"a">>
    /\ filename = "draft"
    /\ isDirty

-----------------------------------------------------------------------------
(* The diagrams of Preview.                                                *)

\* the renderDiagrams calls in flight at once
MaxRuns == 2

Fence == <<Backtick, Backtick, Backtick>>

\* the opening of the pattern of extractMermaidDiagrams
MermaidOpen == Fence \o <<"m", "e", "r", "m", "a", "i", "d", "\n">>

\* the offset of the first occurrence of pattern at or after i, -1 if none
RECURSIVE search(_, _, _)
search(markdown, pattern, i) ==
    IF i + Len(pattern) > Len(markdown) THEN 0 - 1
    ELSE IF SubSeq(markdown, i + 1, i + Len(pattern)) = pattern THEN i
    ELSE search(markdown, pattern, i + 1)

\* String.prototype.trim, the white space being blanks and newlines
RECURSIVE trim(_)
trim(s) ==
    IF s = <<>> THEN s
    ELSE IF Head(s) \in {" ", "\n"} THEN trim(Tail(s))
    ELSE IF s[Len(s)] \in {" ", "\n"} THEN trim(SubSeq(s, 1, Len(s) - 1))
    ELSE s

\* the matches of the pattern from offset i on: the opening, the shortest
\* body, the closing fence
RECURSIVE exec(_, _)
exec(markdown, i) ==
    LET open == search(markdown, MermaidOpen, i)
        bodyStart == open + Len(MermaidOpen)
        close == IF open < 0 THEN 0 - 1 ELSE search(markdown, Fence, bodyStart)
    IN  IF open < 0 \/ close < 0
        THEN <<>>
        ELSE <<trim(substring(markdown, bodyStart, close))>>
                 \o exec(markdown, close + Len(Fence))

\* extractMermaidDiagrams of mermaid.ts
extractMermaidDiagrams(markdown) == exec(markdown, 0)

\* a diagram mermaid cannot parse
InvalidDiagram == <<"?">>

\* what renderDiagrams stores for a diagram: the svg of renderMermaidDiagram,
\* or the failure notice when it throws
renderMermaidDiagram(diagram) ==
    IF diagram = InvalidDiagram THEN <<"Failed to render diagram">> ELSE <<"svg", diagram>>

\* a fenced mermaid block with this source
MermaidBlock(source) == MermaidOpen \o source \o <<"\n">> \o Fence

\* the contents the preview is given
PreviewContents ==
    { <<>>,
      <<"x">>,
      MermaidBlock(<<"A">>),
      MermaidBlock(<<"B">>),
      MermaidBlock(InvalidDiagram),
      MermaidBlock(<<"A">>) \o <<"\n">> \o MermaidBlock(<<"B">>) }

\* the svgs a run of renderDiagrams ends with
RECURSIVE renderAll(_)
renderAll(diagrams) ==
    IF diagrams = <<>> THEN <<>>
    ELSE <<renderMermaidDiagram(Head(diagrams))>> \o renderAll(Tail(diagrams))

\* the content prop changes and the effect runs: renderDiagrams goes as far as
\* its first await, or to its end when there is no diagram
ContentChanges ==
    \E newContent \in PreviewContents :
        /\ newContent # previewContent
        /\ previewContent' = newContent
        /\ IF newContent # <<>> /\ extractMermaidDiagrams(newContent) # <<>>
           THEN /\ Len(runs) < MaxRuns
                /\ runs' = Append(runs, <<extractMermaidDiagrams(newContent), <<>>>>)
                /\ UNCHANGED mermaidSvgs
           ELSE /\ mermaidSvgs' = <<>>
                /\ UNCHANGED runs
        /\ UNCHANGED <<allVars, keyEvent, storageVars>>

\* without k-th element
Without(seq, k) == SubSeq(seq, 1, k - 1) \o SubSeq(seq, k + 1, Len(seq))

\* the await of one of the runs settles: the svg is kept, and after the last
\* diagram setMermaidSvgs is called
RenderSettles ==
    \E k \in 1..Len(runs) :
        LET diagrams == runs[k][1]
            svgs == Append(runs[k][2], renderMermaidDiagram(diagrams[Len(runs[k][2]) + 1]))
        IN  /\ IF Len(svgs) = Len(diagrams)
               THEN /\ mermaidSvgs' = svgs
                    /\ runs' = Without(runs, k)
               ELSE /\ runs' = [runs EXCEPT ![k] = <<diagrams, svgs>>]
                    /\ UNCHANGED mermaidSvgs
            /\ UNCHANGED <<allVars, keyEvent, storageVars, previewContent>>

NextPreview ==
    \/ ContentChanges
    \/ RenderSettles

\* the application has started with the empty document
SpecPreview == InitStorage /\ [][NextPreview]_everyVar

\* C30: once every run has completed, the rendered diagrams are those of the
\* current content, whatever the order the runs have finished in.
C30_DiagramsNeverStale ==
    runs = <<>> => mermaidSvgs = renderAll(extractMermaidDiagrams(previewContent))

====
